---------------------------- MODULE Spec2Model ----------------------------
(***************************************************************************)
(* State-machine model of the xmicro invocation pipeline: the grpc         *)
(* transport's Stream entry point, the server option constructors, the     *)
(* tracing wrappers, the connection pool, the server drain and the nacos   *)
(* dynamic-configuration source.  Every subsystem has its own variables,   *)
(* its own next-state relation and its own specification.                  *)
(***************************************************************************)
EXTENDS Integers, Sequences, FiniteSets, TLC

\* The nil value of Go pointers, interfaces and errors.
Nil == "nil"

(***************************************************************************)
(* State                                                                   *)
(***************************************************************************)

\* transport/grpc/handler.go
VARIABLES
    stPc,         \* per stream: idle | fn | deferred | ret | done
    stSock,       \* per stream: the grpcTransportSocket of the invocation
    stErr,        \* per stream: the named result err
    stPanicking,  \* per stream: the panic in flight, NoPanic when none
    stFn,         \* per stream: what m.fn did (returned, or panicked)
    stRet,        \* per stream: the error Stream handed to its caller
    alive         \* FALSE once a panic left Stream and took the process down

\* server options: newOptions and the Option constructors
VARIABLES
    optList,      \* the option list handed to newOptions
    optResult,    \* what server.newOptions returned, "none" before the call
    optRpcResult  \* what rpc.newOptions returned, "none" before the call

\* wrapper chain: WrapHandler / WrapSubscriber and one invocation
VARIABLES
    wrOpts,       \* the Options under construction (the two wrapper lists)
    wrReg,        \* the registrations made, in call order
    wrKind,       \* which chain was built: none | handler | subscriber
    wrChain,      \* the composed function, outermost wrapper first
    wrPc,         \* registering | in | out | done
    wrDepth,      \* how many wrappers the invocation is inside of
    wrEvents      \* the events observed so far

\* tracing wrappers
VARIABLES
    trPc,         \* per invocation: idle | span | next | finish | ret | done
    trKind,       \* per invocation: which wrapper runs
    trSpan,       \* per invocation: the span StartSpanFromContext started
    trSpanErr,    \* per invocation: the error of StartSpanFromContext
    trNextCalls,  \* per invocation: how often next was called
    trNextErr,    \* per invocation: the error next returned
    trErr,        \* per invocation: the wrapper's local err
    trRet         \* per invocation: the error the wrapper returned

\* nacos dynamic configuration
VARIABLES
    ncPhase,      \* new | built | failed: newNacosDynamicConfiguration's result
    ncDone,       \* TRUE once the done channel is closed
    ncWg,         \* the wait group's counter
    ncClient,     \* the instance's client: a NacosClient id, 0 for nil
    ncObjs,       \* the NacosClient objects: exit closed, inner client set
    ncTask,       \* HandleClientRestart: none | watch | reconnect | exited
    ncDestroy,    \* Destroy: idle | waiting | closing | returned
    ncSeen        \* the latest IsAvailable call: what it returned and where
                  \* Destroy stood

\* a container handed to ValidateNacosClient
VARIABLES
    vlLast        \* the latest ValidateNacosClient call: the container's
                  \* client and the client objects before and after it, and
                  \* the error it returned

\* one NacosClient under concurrent callers
VARIABLES
    clExit,       \* TRUE once the exit channel is closed
    clCloses,     \* how often close(n.exit) was executed
    clInner,      \* TRUE while the inner config client is non-nil
    clOnce,       \* sync.Once: fresh | running | done
    clPc,         \* per caller: idle | once | onceClose | setClient |
                  \* validRead | panicked
    clOp,         \* per caller: the call it is in or made last
    clCall,       \* per caller: exit and inner client as its call began
    clRet,        \* per caller: what its last call returned
    clOps,        \* the calls made so far
    clClosed      \* TRUE once a Close on the client has returned

\* connection pool
VARIABLES
    plSock,       \* per socket: address, closed, holders, errored
    plIdle,       \* per address: the idle entries, oldest first
    plPending,    \* per address: Gets that missed and are dialing
    plLast        \* per address: the latest Get or Release and its socket

\* server lifecycle and drain
VARIABLES
    drState,      \* Created | Listening | Registered | Draining | Stopped
    drCalls,      \* per call: none | running | finished | failed
    drWg,         \* the wait mechanism: the calls in flight
    drClock       \* the time since the stop signal

streamVars == <<stPc, stSock, stErr, stPanicking, stFn, stRet, alive>>
optVars == <<optList, optResult, optRpcResult>>
wrapVars == <<wrOpts, wrReg, wrKind, wrChain, wrPc, wrDepth, wrEvents>>

traceVars == <<trPc, trKind, trSpan, trSpanErr, trNextCalls, trNextErr, trErr,
               trRet>>

nacosVars == <<ncPhase, ncDone, ncWg, ncClient, ncObjs, ncTask, ncDestroy,
               ncSeen>>

validateVars == <<vlLast>>

clientVars == <<clExit, clCloses, clInner, clOnce, clPc, clOp, clCall, clRet,
                clOps, clClosed>>

poolVars == <<plSock, plIdle, plPending, plLast>>

drainVars == <<drState, drCalls, drWg, drClock>>

vars == <<streamVars, optVars, wrapVars, traceVars, nacosVars, validateVars,
          clientVars, poolVars, drainVars>>

\* What the steps of one subsystem leave alone: the other subsystems.
StreamFrame ==
    UNCHANGED <<optVars, wrapVars, traceVars, nacosVars,
                validateVars, clientVars, poolVars, drainVars>>
OptFrame ==
    UNCHANGED <<streamVars, wrapVars, traceVars, nacosVars,
                validateVars, clientVars, poolVars, drainVars>>
WrapFrame ==
    UNCHANGED <<streamVars, optVars, traceVars, nacosVars,
                validateVars, clientVars, poolVars, drainVars>>
TraceFrame ==
    UNCHANGED <<streamVars, optVars, wrapVars, nacosVars,
                validateVars, clientVars, poolVars, drainVars>>
NacosFrame ==
    UNCHANGED <<streamVars, optVars, wrapVars, traceVars,
                validateVars, clientVars, poolVars, drainVars>>
ClientFrame ==
    UNCHANGED <<streamVars, optVars, wrapVars, traceVars,
                nacosVars, validateVars, poolVars, drainVars>>
PoolFrame ==
    UNCHANGED <<streamVars, optVars, wrapVars, traceVars,
                nacosVars, validateVars, clientVars, drainVars>>
DrainFrame ==
    UNCHANGED <<streamVars, optVars, wrapVars, traceVars,
                nacosVars, validateVars, clientVars, poolVars>>
\* The steps on a container write its client and the client objects.
ValidateFrame ==
    /\ UNCHANGED <<ncPhase, ncDone, ncWg, ncTask, ncDestroy, ncSeen>>
    /\ UNCHANGED <<streamVars, optVars, wrapVars, traceVars,
                   clientVars, poolVars, drainVars>>

(***************************************************************************)
(* transport/grpc/handler.go : microTransport.Stream                       *)
(***************************************************************************)

\* Number of grpc streams (connections) the transport serves concurrently.
MaxConns == 3

Conns == 1..MaxConns

\* What m.fn may do with the socket: return, or panic with a value.  The
\* value nil stands for panic(nil).
PanicValues == {"boom", "errValue", Nil}

NoPanic == "noPanic"

InternalServerError == "InternalServerError"

NoSock == [open |-> FALSE, closed |-> FALSE, remote |-> ""]

StreamInit ==
    /\ stPc = [c \in Conns |-> "idle"]
    /\ stSock = [c \in Conns |-> NoSock]
    /\ stErr = [c \in Conns |-> Nil]
    /\ stPanicking = [c \in Conns |-> NoPanic]
    /\ stFn = [c \in Conns |-> "none"]
    /\ stRet = [c \in Conns |-> "none"]
    /\ alive = TRUE

\* recover(): the value of the panic in flight, nil when there is none.  The
\* runtime delivers panic(nil) as a non-nil *runtime.PanicNilError.
Recover(p) ==
    IF p = NoPanic THEN Nil
    ELSE IF p = Nil THEN "PanicNilError"
    ELSE p

\* handler.go:19-29, 40: Stream builds the socket of this invocation (the
\* remote address is set when the stream's context carries a peer) and runs
\* the socket-serving function.
StreamCall(c, peerOk) ==
    /\ alive
    /\ stPc[c] = "idle"
    /\ stPc' = [stPc EXCEPT ![c] = "fn"]
    /\ stSock' = [stSock EXCEPT ![c] =
                    [open |-> TRUE, closed |-> FALSE,
                     remote |-> IF peerOk THEN "peer" ELSE ""]]
    /\ UNCHANGED <<stErr, stPanicking, stFn, stRet, alive>>
    /\ StreamFrame

\* handler.go:40: m.fn(sock) returns.
FnReturn(c) ==
    /\ alive
    /\ stPc[c] = "fn"
    /\ stPc' = [stPc EXCEPT ![c] = "deferred"]
    /\ stFn' = [stFn EXCEPT ![c] = "returned"]
    /\ UNCHANGED <<stSock, stErr, stPanicking, stRet, alive>>
    /\ StreamFrame

\* handler.go:40: m.fn(sock) panics with value v; the deferred function runs.
FnPanic(c, v) ==
    /\ alive
    /\ stPc[c] = "fn"
    /\ stPc' = [stPc EXCEPT ![c] = "deferred"]
    /\ stFn' = [stFn EXCEPT ![c] = "panicked"]
    /\ stPanicking' = [stPanicking EXCEPT ![c] = v]
    /\ UNCHANGED <<stSock, stErr, stRet, alive>>
    /\ StreamFrame

\* A deferred function that recovers but neither closes the socket nor sets
\* the error.
DeferredRecoverOnly(c) ==
    /\ alive
    /\ stPc[c] = "deferred"
    /\ stPanicking' = [stPanicking EXCEPT ![c] = NoPanic]
    /\ stPc' = [stPc EXCEPT ![c] = "ret"]
    /\ UNCHANGED <<stSock, stErr, stFn, stRet, alive>>
    /\ StreamFrame

\* handler.go:31-37: the deferred function.  recover() stops the panic; when
\* it yields a value the socket is closed and err is set.
Deferred(c) ==
    /\ alive
    /\ stPc[c] = "deferred"
    /\ LET r == Recover(stPanicking[c]) IN
         /\ stPanicking' = [stPanicking EXCEPT ![c] = NoPanic]
         /\ IF r # Nil
               THEN /\ stSock' = [stSock EXCEPT ![c].closed = TRUE]
                    /\ stErr' = [stErr EXCEPT ![c] = InternalServerError]
               ELSE UNCHANGED <<stSock, stErr>>
    /\ stPc' = [stPc EXCEPT ![c] = "ret"]
    /\ UNCHANGED <<stFn, stRet, alive>>
    /\ StreamFrame

\* handler.go:42 and the function's exit: Stream hands err to its caller,
\* unless a panic is still in flight, which then leaves Stream and ends the
\* process.
StreamReturn(c) ==
    /\ alive
    /\ stPc[c] = "ret"
    /\ stPc' = [stPc EXCEPT ![c] = "done"]
    /\ IF stPanicking[c] = NoPanic
          THEN /\ stRet' = [stRet EXCEPT ![c] = stErr[c]]
               /\ alive' = TRUE
          ELSE /\ stRet' = [stRet EXCEPT ![c] = "panic"]
               /\ alive' = FALSE
    /\ UNCHANGED <<stSock, stErr, stPanicking, stFn>>
    /\ StreamFrame

StreamNext ==
    \/ \E c \in Conns, peerOk \in BOOLEAN : StreamCall(c, peerOk)
    \/ \E c \in Conns : FnReturn(c)
    \/ \E c \in Conns, v \in PanicValues : FnPanic(c, v)
    \/ \E c \in Conns : Deferred(c)
    \/ \E c \in Conns : StreamReturn(c)


(***************************************************************************)
(* server options (src/unnamed/part_000:189-470) and rpc.newOptions        *)
(* (part_000:472-528)                                                      *)
(***************************************************************************)

\* Longest option list handed to newOptions.
MaxOpts == 3

\* A nil context.Context, and the contexts a caller can hand in.  A context
\* is its chain of values; the only key the server reads is "wait".
NilCtx == [base |-> Nil, wait |-> Nil]
Background == [base |-> "background", wait |-> Nil]
UserCtx == [base |-> "user", wait |-> Nil]

\* Transports are objects: Options.Transport holds a reference (a name) and
\* Init changes the object behind it.
TransportNames == {"tr", "tmem"}
FreshTransport == [secure |-> FALSE, tls |-> Nil]

\* part_000:212-245: the fields of Options the option constructors below
\* write.
ZeroOptions ==
    [Broker |-> Nil, Registry |-> Nil, Transport |-> Nil, RegisterCheck |-> Nil,
     Name |-> "", Address |-> "", Id |-> "", Version |-> "",
     RegisterTTL |-> "zero", RegisterInterval |-> "zero",
     TLSConfig |-> Nil, Context |-> NilCtx]

\* The options a caller can build.
OptionSet ==
    {[op |-> "Wait", arg |-> w] : w \in {Nil, "wgCaller"}}
    \cup {[op |-> "Context", arg |-> c] : c \in {"nilCtx", "userCtx"}}
    \cup {[op |-> "Transport", arg |-> t] : t \in {Nil, "tr"}}
    \cup {[op |-> "TLSConfig", arg |-> "tlsCfg"]}
    \cup {[op |-> "Name", arg |-> n] : n \in {"", "svc"}}
    \cup {[op |-> "Address", arg |-> a] : a \in {"", ":8080"}}

OptionLists == UNION {[1..n -> OptionSet] : n \in 0..MaxOpts}

\* The options that only set a field, with the nil and empty values a
\* caller can pass, and the lists of them a caller can build.
MaxPlain == 3

PlainOptionSet ==
    {[op |-> "Name", arg |-> n] : n \in {"", "svc"}}
    \cup {[op |-> "Id", arg |-> n] : n \in {"", "id1"}}
    \cup {[op |-> "Version", arg |-> n] : n \in {"", "v1"}}
    \cup {[op |-> "Address", arg |-> a] : a \in {"", ":8080"}}
    \cup {[op |-> "Broker", arg |-> b] : b \in {Nil, "br"}}
    \cup {[op |-> "Registry", arg |-> b] : b \in {Nil, "reg"}}
    \cup {[op |-> "Transport", arg |-> t] : t \in {Nil, "tr"}}
    \cup {[op |-> "RegisterCheck", arg |-> f] : f \in {Nil, "chk"}}
    \cup {[op |-> "RegisterTTL", arg |-> t] : t \in {"zero", "ttl"}}
    \cup {[op |-> "RegisterInterval", arg |-> t] : t \in {"ivl"}}

PlainLists == UNION {[1..n -> PlainOptionSet] : n \in 0..MaxPlain}

\* The state of an option run: the Options so far, the transport objects,
\* and whether an option panicked.
Run(o, heap, panicked) == [opts |-> o, heap |-> heap, panicked |-> panicked]

\* part_000:295-299
Name(r, n) == Run([r.opts EXCEPT !.Name = n], r.heap, FALSE)

\* part_000:323-327
Address(r, a) == Run([r.opts EXCEPT !.Address = a], r.heap, FALSE)

\* part_000:309-313
Id(r, id) == Run([r.opts EXCEPT !.Id = id], r.heap, FALSE)

\* part_000:316-320
Version(r, v) == Run([r.opts EXCEPT !.Version = v], r.heap, FALSE)

\* part_000:337-341
Broker(r, b) == Run([r.opts EXCEPT !.Broker = b], r.heap, FALSE)

\* part_000:360-364
Registry(r, reg) == Run([r.opts EXCEPT !.Registry = reg], r.heap, FALSE)

\* part_000:395-399
RegisterCheck(r, fn) == Run([r.opts EXCEPT !.RegisterCheck = fn], r.heap, FALSE)

\* part_000:402-406
RegisterTTL(r, t) == Run([r.opts EXCEPT !.RegisterTTL = t], r.heap, FALSE)

\* part_000:409-413
RegisterInterval(r, t) ==
    Run([r.opts EXCEPT !.RegisterInterval = t], r.heap, FALSE)

\* part_000:353-357
Context(r, ctx) == Run([r.opts EXCEPT !.Context = ctx], r.heap, FALSE)

\* part_000:381-385
Transport(r, t) == Run([r.opts EXCEPT !.Transport = t], r.heap, FALSE)

\* part_000:416-433: the nil check of o.Transport is commented out, so Init
\* is called on whatever o.Transport holds: a nil interface panics.
TLSConfig(r, t) ==
    IF r.opts.Transport = Nil
       THEN Run([r.opts EXCEPT !.TLSConfig = t], r.heap, TRUE)
       ELSE Run([r.opts EXCEPT !.TLSConfig = t],
                [r.heap EXCEPT ![r.opts.Transport] = [secure |-> TRUE, tls |-> t]],
                FALSE)

\* A Wait that builds its context from the background context every time.
WaitFromBackground(r, wg) ==
    Run([r.opts EXCEPT !.Context =
            [Background EXCEPT !.wait = IF wg = Nil THEN "wgNew" ELSE wg]],
        r.heap, FALSE)

\* A Wait that stores the caller's wg as it is, nil included.
WaitNoFresh(r, wg) ==
    LET ctx == IF r.opts.Context = NilCtx THEN Background ELSE r.opts.Context
    IN  Run([r.opts EXCEPT !.Context = [ctx EXCEPT !.wait = wg]], r.heap, FALSE)

\* part_000:446-456
Wait(r, wg) ==
    LET ctx == IF r.opts.Context = NilCtx THEN Background ELSE r.opts.Context
        w == IF wg = Nil THEN "wgNew" ELSE wg
    IN  Run([r.opts EXCEPT !.Context = [ctx EXCEPT !.wait = w]], r.heap, FALSE)

\* o(&opts) for one option of the list.
ApplyOption(r, opt) ==
    CASE opt.op = "Wait" -> Wait(r, opt.arg)
      [] opt.op = "Context" ->
            Context(r, IF opt.arg = "nilCtx" THEN NilCtx ELSE UserCtx)
      [] opt.op = "Transport" -> Transport(r, opt.arg)
      [] opt.op = "TLSConfig" -> TLSConfig(r, opt.arg)
      [] opt.op = "Name" -> Name(r, opt.arg)
      [] opt.op = "Address" -> Address(r, opt.arg)
      [] opt.op = "Id" -> Id(r, opt.arg)
      [] opt.op = "Version" -> Version(r, opt.arg)
      [] opt.op = "Broker" -> Broker(r, opt.arg)
      [] opt.op = "Registry" -> Registry(r, opt.arg)
      [] opt.op = "RegisterCheck" -> RegisterCheck(r, opt.arg)
      [] opt.op = "RegisterTTL" -> RegisterTTL(r, opt.arg)
      [] opt.op = "RegisterInterval" -> RegisterInterval(r, opt.arg)

\* part_000:255-257: the options are applied in list order; a panic ends
\* the loop.
RECURSIVE ApplyFrom(_, _, _)
ApplyFrom(r, list, i) ==
    IF r.panicked \/ i > Len(list) THEN r
    ELSE ApplyFrom(ApplyOption(r, list[i]), list, i + 1)

\* Defaults that leave an empty Version as it is.
DefaultsNoVersion(o) ==
    [o EXCEPT
       !.Broker = IF @ = Nil THEN "mbroker" ELSE @,
       !.Registry = IF @ = Nil THEN "memory" ELSE @,
       !.Transport = IF @ = Nil THEN "tmem" ELSE @,
       !.RegisterCheck = IF @ = Nil THEN "DefaultRegisterCheck" ELSE @,
       !.Address = IF @ = "" THEN "DefaultAddress" ELSE @,
       !.Name = IF @ = "" THEN "DefaultName" ELSE @,
       !.Id = IF @ = "" THEN "DefaultId" ELSE @]

\* part_000:259-289: a default for every field still nil or empty.
Defaults(o) ==
    [o EXCEPT
       !.Broker = IF @ = Nil THEN "mbroker" ELSE @,
       !.Registry = IF @ = Nil THEN "memory" ELSE @,
       !.Transport = IF @ = Nil THEN "tmem" ELSE @,
       !.RegisterCheck = IF @ = Nil THEN "DefaultRegisterCheck" ELSE @,
       !.Address = IF @ = "" THEN "DefaultAddress" ELSE @,
       !.Name = IF @ = "" THEN "DefaultName" ELSE @,
       !.Id = IF @ = "" THEN "DefaultId" ELSE @,
       !.Version = IF @ = "" THEN "DefaultVersion" ELSE @]

\* part_000:247-292
newOptions(list) ==
    LET start == Run([ZeroOptions EXCEPT
                        !.RegisterInterval = "DefaultRegisterInterval",
                        !.RegisterTTL = "DefaultRegisterTTL"],
                     [t \in TransportNames |-> FreshTransport], FALSE)
        r == ApplyFrom(start, list, 1)
    IN  IF r.panicked
           THEN [state |-> "panicked", opts |-> r.opts, heap |-> r.heap]
           ELSE [state |-> "returned", opts |-> Defaults(r.opts), heap |-> r.heap]

\* part_000:483-528: the rpc package's copy of newOptions.
rpcNewOptions(list) ==
    LET start == Run([ZeroOptions EXCEPT
                        !.RegisterInterval = "DefaultRegisterInterval",
                        !.RegisterTTL = "DefaultRegisterTTL"],
                     [t \in TransportNames |-> FreshTransport], FALSE)
        r == ApplyFrom(start, list, 1)
    IN  IF r.panicked
           THEN [state |-> "panicked", opts |-> r.opts, heap |-> r.heap]
           ELSE [state |-> "returned", opts |-> Defaults(r.opts), heap |-> r.heap]

NoResult ==
    [state |-> "none", opts |-> ZeroOptions,
     heap |-> [t \in TransportNames |-> FreshTransport]]

\* A caller has built an option list and not called newOptions yet.
OptInit ==
    /\ optList \in OptionLists
    /\ optResult = NoResult
    /\ optRpcResult = NoResult

\* A caller has built a list of field-setting options.
PlainInit ==
    /\ optList \in PlainLists
    /\ optResult = NoResult
    /\ optRpcResult = NoResult

\* The subsystem at rest, for the specifications of the other subsystems.
OptOff ==
    /\ optList = <<>>
    /\ optResult = NoResult
    /\ optRpcResult = NoResult

ServerNewOptions ==
    /\ optResult.state = "none"
    /\ optResult' = newOptions(optList)
    /\ UNCHANGED <<optList, optRpcResult>>
    /\ OptFrame

RpcNewOptions ==
    /\ optRpcResult.state = "none"
    /\ optRpcResult' = rpcNewOptions(optList)
    /\ UNCHANGED <<optList, optResult>>
    /\ OptFrame

OptNext ==
    \/ ServerNewOptions
    \/ RpcNewOptions

(***************************************************************************)
(* wrapper chain: WrapHandler / WrapSubscriber (part_000:458-470) and the  *)
(* composition of the registered wrappers around the terminal function     *)
(***************************************************************************)

\* Most wrappers registered for one extension point.
MaxWrappers == 2

WrapperNames == {"W1", "W2"}

\* A wrapper that lands in front of the ones registered before it.
WrapHandlerPrepend(o, w) == [o EXCEPT !.HdlrWrappers = <<w>> \o @]

\* part_000:459-463
WrapHandler(o, w) == [o EXCEPT !.HdlrWrappers = Append(@, w)]

\* part_000:466-470
WrapSubscriber(o, w) == [o EXCEPT !.SubWrappers = Append(@, w)]

\* The decorated function: the wrappers are applied so that the
\* first-registered one is the outermost; the result is the list of layers
\* from the outside in, the terminal function behind the last.
RECURSIVE WrapFrom(_, _, _)
WrapFrom(ws, i, chain) ==
    IF i = 0 THEN chain ELSE WrapFrom(ws, i - 1, <<ws[i]>> \o chain)

Compose(ws) == WrapFrom(ws, Len(ws), <<>>)

Event(e, w) == [ev |-> e, w |-> w]

WrapInit ==
    /\ wrOpts = [HdlrWrappers |-> <<>>, SubWrappers |-> <<>>]
    /\ wrReg = <<>>
    /\ wrKind = "none"
    /\ wrChain = <<>>
    /\ wrPc = "registering"
    /\ wrDepth = 0
    /\ wrEvents = <<>>

\* The caller passes WrapHandler(w) in the option list.
RegisterHandler(w) ==
    /\ wrPc = "registering"
    /\ Len(wrOpts.HdlrWrappers) < MaxWrappers
    /\ wrOpts' = WrapHandler(wrOpts, w)
    /\ wrReg' = Append(wrReg, [kind |-> "handler", w |-> w])
    /\ UNCHANGED <<wrKind, wrChain, wrPc, wrDepth, wrEvents>>
    /\ WrapFrame

\* The caller passes WrapSubscriber(w) in the option list.
RegisterSubscriber(w) ==
    /\ wrPc = "registering"
    /\ Len(wrOpts.SubWrappers) < MaxWrappers
    /\ wrOpts' = WrapSubscriber(wrOpts, w)
    /\ wrReg' = Append(wrReg, [kind |-> "subscriber", w |-> w])
    /\ UNCHANGED <<wrKind, wrChain, wrPc, wrDepth, wrEvents>>
    /\ WrapFrame

\* The server decorates the handler (or subscriber) function with the
\* registered wrappers and one request arrives.
Invoke(kind) ==
    /\ wrPc = "registering"
    /\ wrKind' = kind
    /\ wrChain' = Compose(IF kind = "handler" THEN wrOpts.HdlrWrappers
                                              ELSE wrOpts.SubWrappers)
    /\ wrPc' = "in"
    /\ UNCHANGED <<wrOpts, wrReg, wrDepth, wrEvents>>
    /\ WrapFrame

\* The next layer's wrapper starts: its code before the call of next.
EnterWrapper ==
    /\ wrPc = "in"
    /\ wrDepth < Len(wrChain)
    /\ wrEvents' = Append(wrEvents, Event("pre", wrChain[wrDepth + 1]))
    /\ wrDepth' = wrDepth + 1
    /\ UNCHANGED <<wrOpts, wrReg, wrKind, wrChain, wrPc>>
    /\ WrapFrame

\* The innermost next is the terminal function.
Terminal ==
    /\ wrPc = "in"
    /\ wrDepth = Len(wrChain)
    /\ wrEvents' = Append(wrEvents, Event("T", "T"))
    /\ wrPc' = "out"
    /\ UNCHANGED <<wrOpts, wrReg, wrKind, wrChain, wrDepth>>
    /\ WrapFrame

\* next returned into the wrapper at this depth: its code after the call.
LeaveWrapper ==
    /\ wrPc = "out"
    /\ wrDepth > 0
    /\ wrEvents' = Append(wrEvents, Event("post", wrChain[wrDepth]))
    /\ wrDepth' = wrDepth - 1
    /\ UNCHANGED <<wrOpts, wrReg, wrKind, wrChain, wrPc>>
    /\ WrapFrame

\* The outermost function returned.
InvocationDone ==
    /\ wrPc = "out"
    /\ wrDepth = 0
    /\ wrPc' = "done"
    /\ UNCHANGED <<wrOpts, wrReg, wrKind, wrChain, wrDepth, wrEvents>>
    /\ WrapFrame

WrapNext ==
    \/ \E w \in WrapperNames : RegisterHandler(w)
    \/ \E w \in WrapperNames : RegisterSubscriber(w)
    \/ \E kind \in {"handler", "subscriber"} : Invoke(kind)
    \/ EnterWrapper
    \/ Terminal
    \/ LeaveWrapper
    \/ InvocationDone

(***************************************************************************)
(* tracing wrappers (part_000:20-187)                                      *)
(***************************************************************************)

\* Wrapper invocations in flight at once.
MaxInvs == 2

Invs == 1..MaxInvs

WrapperKinds ==
    {"Call", "Stream", "Publish", "CallWrapper", "HandlerWrapper",
     "SubscriberWrapper"}

\* The errors next can return.
NextErrors == {Nil, "errA", "errB"}

InjectError == "injectErr"

NoSpan == [started |-> FALSE, finished |-> FALSE, kind |-> Nil, errTag |-> FALSE]

\* part_000:101, 132, 155, 178: the span kind each wrapper sets; Call and
\* Stream set none.
SpanKind(kind) ==
    CASE kind = "Publish" -> "producer"
      [] kind = "CallWrapper" -> "client"
      [] kind = "HandlerWrapper" -> "server"
      [] kind = "SubscriberWrapper" -> "consumer"
      [] OTHER -> Nil

TraceInit ==
    /\ trPc = [i \in Invs |-> "idle"]
    /\ trKind = [i \in Invs |-> Nil]
    /\ trSpan = [i \in Invs |-> NoSpan]
    /\ trSpanErr = [i \in Invs |-> Nil]
    /\ trNextCalls = [i \in Invs |-> 0]
    /\ trNextErr = [i \in Invs |-> Nil]
    /\ trErr = [i \in Invs |-> Nil]
    /\ trRet = [i \in Invs |-> "none"]

\* One of the six wrappers is called.
TraceInvoke(i, kind) ==
    /\ trPc[i] = "idle"
    /\ trPc' = [trPc EXCEPT ![i] = "span"]
    /\ trKind' = [trKind EXCEPT ![i] = kind]
    /\ UNCHANGED <<trSpan, trSpanErr, trNextCalls, trNextErr, trErr, trRet>>
    /\ TraceFrame

\* part_000:33-64 and the wrapper's check of its error (68-71, 82-85,
\* 97-100, 128-131, 151-154, 174-177): the tracer starts a span, then the
\* span's context is injected into the metadata; when that fails
\* StartSpanFromContext returns the error and the wrapper returns it, else
\* the wrapper sets its span kind and defers span.Finish.
StartSpanFromContext(i, injectOk) ==
    /\ trPc[i] = "span"
    /\ IF injectOk
          THEN /\ trSpan' = [trSpan EXCEPT ![i] =
                               [started |-> TRUE, finished |-> FALSE,
                                kind |-> SpanKind(trKind[i]), errTag |-> FALSE]]
               /\ trPc' = [trPc EXCEPT ![i] = "next"]
               /\ UNCHANGED <<trSpanErr, trErr>>
          ELSE /\ trSpan' = [trSpan EXCEPT ![i] =
                               [started |-> TRUE, finished |-> FALSE,
                                kind |-> Nil, errTag |-> FALSE]]
               /\ trSpanErr' = [trSpanErr EXCEPT ![i] = InjectError]
               /\ trErr' = [trErr EXCEPT ![i] = InjectError]
               /\ trPc' = [trPc EXCEPT ![i] = "ret"]
    /\ UNCHANGED <<trKind, trNextCalls, trNextErr, trRet>>
    /\ TraceFrame

\* A wrapper that logs the error of next and goes on without it.
CallNextSwallow(i, e) ==
    /\ trPc[i] = "next"
    /\ trNextCalls' = [trNextCalls EXCEPT ![i] = @ + 1]
    /\ trNextErr' = [trNextErr EXCEPT ![i] = e]
    /\ trErr' = [trErr EXCEPT ![i] = Nil]
    /\ trSpan' = [trSpan EXCEPT ![i].errTag = (e # Nil)]
    /\ trPc' = [trPc EXCEPT ![i] = "finish"]
    /\ UNCHANGED <<trKind, trSpanErr, trRet>>
    /\ TraceFrame

\* part_000:73-76, 87-91, 103-106, 134-137, 157-160, 180-183: the wrapper
\* calls next; a non-nil error is logged on the span and tagged.
CallNext(i, e) ==
    /\ trPc[i] = "next"
    /\ trNextCalls' = [trNextCalls EXCEPT ![i] = @ + 1]
    /\ trNextErr' = [trNextErr EXCEPT ![i] = e]
    /\ trErr' = [trErr EXCEPT ![i] = e]
    /\ trSpan' = [trSpan EXCEPT ![i].errTag = (e # Nil)]
    /\ trPc' = [trPc EXCEPT ![i] = "finish"]
    /\ UNCHANGED <<trKind, trSpanErr, trRet>>
    /\ TraceFrame

\* part_000:72, 86, 102, 133, 156, 179: the deferred span.Finish().
FinishSpan(i) ==
    /\ trPc[i] = "finish"
    /\ trSpan' = [trSpan EXCEPT ![i].finished = TRUE]
    /\ trPc' = [trPc EXCEPT ![i] = "ret"]
    /\ UNCHANGED <<trKind, trSpanErr, trNextCalls, trNextErr, trErr, trRet>>
    /\ TraceFrame

\* part_000:70, 77, 84, 92, 99, 107, 130, 138, 153, 161, 176, 184: the
\* wrapper returns its err.
TraceReturn(i) ==
    /\ trPc[i] = "ret"
    /\ trRet' = [trRet EXCEPT ![i] = trErr[i]]
    /\ trPc' = [trPc EXCEPT ![i] = "done"]
    /\ UNCHANGED <<trKind, trSpan, trSpanErr, trNextCalls, trNextErr, trErr>>
    /\ TraceFrame

TraceNext ==
    \/ \E i \in Invs, kind \in WrapperKinds : TraceInvoke(i, kind)
    \/ \E i \in Invs, injectOk \in BOOLEAN : StartSpanFromContext(i, injectOk)
    \/ \E i \in Invs, e \in NextErrors : CallNext(i, e)
    \/ \E i \in Invs : FinishSpan(i)
    \/ \E i \in Invs : TraceReturn(i)

(***************************************************************************)
(* nacos dynamic configuration (config/source/nacos/impl.go)               *)
(***************************************************************************)

\* NacosClient objects that can be created over the instance's life.
MaxClients == 3

ClientIds == 1..MaxClients

\* A NacosClient not yet created.
NoClient == [alloc |-> FALSE, exit |-> FALSE, inner |-> FALSE]

FreeIds(objs) == {c \in ClientIds : ~objs[c].alloc}

\* impl.go:445-454 and 475-482: Close on a nil client returns; otherwise
\* stop() closes exit unless it is closed already, and SetClient(nil)
\* drops the inner config client.
Close(objs, c) ==
    IF c = 0 THEN objs
    ELSE [objs EXCEPT ![c] = [alloc |-> TRUE, exit |-> TRUE, inner |-> FALSE]]

\* impl.go:339-379: the container's client and the objects after
\* ValidateNacosClient, with the error it returns.  timeoutOk: the timeout
\* parses; newOk: newNacosClient (impl.go:381-406) gets its config client;
\* initOk: initNacosConfigClient succeeds for a client without one.
ValidateNacosClient(client, objs, timeoutOk, newOk, initOk) ==
    IF ~timeoutOk THEN [client |-> client, objs |-> objs, err |-> "timeoutErr"]
    ELSE IF client = 0 /\ ~newOk
       THEN [client |-> client, objs |-> objs, err |-> "newClientErr"]
    ELSE
       LET n == CHOOSE c \in FreeIds(objs) : \A d \in FreeIds(objs) : c <= d
           cl == IF client = 0 THEN n ELSE client
           o1 == IF client = 0
                    THEN [objs EXCEPT ![n] =
                            [alloc |-> TRUE, exit |-> FALSE, inner |-> TRUE]]
                    ELSE objs
       IN  IF o1[cl].inner THEN [client |-> cl, objs |-> o1, err |-> Nil]
           ELSE IF ~initOk
              THEN [client |-> cl, objs |-> o1, err |-> "initErr"]
           ELSE [client |-> cl, objs |-> [o1 EXCEPT ![cl].inner = TRUE],
                 err |-> Nil]

\* impl.go:222-229
IsAvailable == ~ncDone

NacosInit ==
    /\ ncPhase = "new"
    /\ ncDone = FALSE
    /\ ncWg = 0
    /\ ncClient = 0
    /\ ncObjs = [c \in ClientIds |-> NoClient]
    /\ ncTask = "none"
    /\ ncDestroy = "idle"
    /\ ncSeen = [ret |-> "none", at |-> "none"]

\* impl.go:73-88: the instance is returned, with its restart task started
\* under the wait group, when ValidateNacosClient succeeds.
newNacosDynamicConfiguration(timeoutOk, newOk) ==
    /\ ncPhase = "new"
    /\ LET v == ValidateNacosClient(ncClient, ncObjs, timeoutOk, newOk, TRUE) IN
         /\ ncClient' = v.client
         /\ ncObjs' = v.objs
         /\ IF v.err # Nil
               THEN /\ ncPhase' = "failed"
                    /\ UNCHANGED <<ncWg, ncTask>>
               ELSE /\ ncPhase' = "built"
                    /\ ncWg' = ncWg + 1
                    /\ ncTask' = "watch"
    /\ UNCHANGED <<ncDone, ncDestroy>>
    /\ UNCHANGED ncSeen
    /\ NacosFrame

\* impl.go:475-482: a holder of the instance's client closes it.
ClientClose ==
    /\ ncPhase = "built"
    /\ ncClient # 0
    /\ ~ncObjs[ncClient].exit
    /\ ncObjs' = Close(ncObjs, ncClient)
    /\ UNCHANGED <<ncPhase, ncDone, ncWg, ncClient, ncTask, ncDestroy>>
    /\ UNCHANGED ncSeen
    /\ NacosFrame

\* HandleClientRestart: the task sees done closed and ends, releasing the
\* wait group.
TaskExit ==
    /\ ncTask \in {"watch", "reconnect"}
    /\ ncDone
    /\ ncTask' = "exited"
    /\ ncWg' = ncWg - 1
    /\ UNCHANGED <<ncPhase, ncDone, ncClient, ncObjs, ncDestroy>>
    /\ UNCHANGED ncSeen
    /\ NacosFrame

\* HandleClientRestart: the task sees its client's exit closed, closes the
\* client and drops it from the instance.
TaskClientLost ==
    /\ ncTask = "watch"
    /\ ncClient # 0
    /\ ncObjs[ncClient].exit
    /\ ncObjs' = Close(ncObjs, ncClient)
    /\ ncClient' = 0
    /\ ncTask' = "reconnect"
    /\ UNCHANGED <<ncPhase, ncDone, ncWg, ncDestroy>>
    /\ UNCHANGED ncSeen
    /\ NacosFrame

\* HandleClientRestart: the task tries to get a new client until one is
\* made.
TaskReconnect(newOk) ==
    /\ ncTask = "reconnect"
    /\ newOk => FreeIds(ncObjs) # {}
    /\ LET v == ValidateNacosClient(ncClient, ncObjs, TRUE, newOk, TRUE) IN
         /\ ncClient' = v.client
         /\ ncObjs' = v.objs
         /\ ncTask' = IF v.err = Nil THEN "watch" ELSE "reconnect"
    /\ UNCHANGED <<ncPhase, ncDone, ncWg, ncDestroy>>
    /\ UNCHANGED ncSeen
    /\ NacosFrame

\* impl.go:207: Destroy closes done.
DestroyCloseDone ==
    /\ ncPhase = "built"
    /\ ncDestroy = "idle"
    /\ ncDone' = TRUE
    /\ ncDestroy' = "waiting"
    /\ UNCHANGED <<ncPhase, ncWg, ncClient, ncObjs, ncTask>>
    /\ UNCHANGED ncSeen
    /\ NacosFrame

\* A Destroy that goes on without waiting for the wait group.
DestroyNoWait ==
    /\ ncDestroy = "waiting"
    /\ ncDestroy' = "closing"
    /\ UNCHANGED <<ncPhase, ncDone, ncWg, ncClient, ncObjs, ncTask>>
    /\ UNCHANGED ncSeen
    /\ NacosFrame

\* impl.go:208: n.wg.Wait() returns once the counter is zero.
DestroyWait ==
    /\ ncDestroy = "waiting"
    /\ ncWg = 0
    /\ ncDestroy' = "closing"
    /\ UNCHANGED <<ncPhase, ncDone, ncWg, ncClient, ncObjs, ncTask>>
    /\ UNCHANGED ncSeen
    /\ NacosFrame

\* impl.go:209, 231-239: closeConfigs takes the client out of the instance
\* and closes it.
closeConfigs ==
    /\ ncDestroy = "closing"
    /\ ncClient' = 0
    /\ ncObjs' = Close(ncObjs, ncClient)
    /\ ncDestroy' = "returned"
    /\ UNCHANGED <<ncPhase, ncDone, ncWg, ncTask>>
    /\ UNCHANGED ncSeen
    /\ NacosFrame

\* impl.go:222-229: a caller asks whether the instance is available.
CallIsAvailable ==
    /\ ncPhase = "built"
    /\ ncSeen' = [ret |-> IF IsAvailable THEN "true" ELSE "false",
                  at |-> ncDestroy]
    /\ UNCHANGED <<ncPhase, ncDone, ncWg, ncClient, ncObjs, ncTask, ncDestroy>>
    /\ NacosFrame

NacosNext ==
    \/ \E timeoutOk, newOk \in BOOLEAN :
          newNacosDynamicConfiguration(timeoutOk, newOk)
    \/ ClientClose
    \/ TaskExit
    \/ TaskClientLost
    \/ \E newOk \in BOOLEAN : TaskReconnect(newOk)
    \/ DestroyCloseDone
    \/ DestroyWait
    \/ closeConfigs
    \/ CallIsAvailable

(***************************************************************************)
(* ValidateNacosClient on a container whose client its holders close and   *)
(* drop (config/source/nacos/impl.go:339-379)                              *)
(***************************************************************************)

NoValidate ==
    [err |-> "none", before |-> 0, after |-> 0,
     objsBefore |-> [c \in ClientIds |-> NoClient],
     objsAfter |-> [c \in ClientIds |-> NoClient]]

ValidateInit == vlLast = NoValidate

\* impl.go:457-472: NacosClientValid() of a client object.
Usable(obj) == ~obj.exit /\ obj.inner

\* impl.go:339-379: a holder of the container calls ValidateNacosClient.
CallValidate(timeoutOk, newOk, initOk) ==
    /\ ncClient = 0 /\ timeoutOk /\ newOk => FreeIds(ncObjs) # {}
    /\ LET v == ValidateNacosClient(ncClient, ncObjs, timeoutOk, newOk, initOk) IN
         /\ ncClient' = v.client
         /\ ncObjs' = v.objs
         /\ vlLast' = [err |-> v.err, before |-> ncClient, after |-> v.client,
                       objsBefore |-> ncObjs, objsAfter |-> v.objs]
    /\ ValidateFrame

\* impl.go:475-482: a holder of the container's client calls Close on it.
HolderClose ==
    /\ ncClient # 0
    /\ ~ncObjs[ncClient].exit
    /\ ncObjs' = Close(ncObjs, ncClient)
    /\ UNCHANGED <<ncClient, vlLast>>
    /\ ValidateFrame

\* impl.go:231-239: the container's client is taken out and closed, as
\* closeConfigs does.
HolderDrop ==
    /\ ncClient # 0
    /\ ncClient' = 0
    /\ ncObjs' = Close(ncObjs, ncClient)
    /\ UNCHANGED vlLast
    /\ ValidateFrame

\* impl.go:317-322: a holder of the container's client calls
\* SetClient(nil) on it.
HolderSetClientNil ==
    /\ ncClient # 0
    /\ ncObjs[ncClient].inner
    /\ ncObjs' = [ncObjs EXCEPT ![ncClient].inner = FALSE]
    /\ UNCHANGED <<ncClient, vlLast>>
    /\ ValidateFrame

ValidateNext ==
    \/ \E timeoutOk, newOk, initOk \in BOOLEAN :
          CallValidate(timeoutOk, newOk, initOk)
    \/ HolderClose
    \/ HolderSetClientNil
    \/ HolderDrop

(***************************************************************************)
(* One NacosClient under concurrent stop, Close and NacosClientValid calls *)
(* (config/source/nacos/impl.go:381-482)                                   *)
(***************************************************************************)

\* The goroutines that call into the client, and the calls they make in all.
MaxCallers == 2
MaxClientOps == 4

Callers == 1..MaxCallers

NoCall == [exit |-> FALSE, inner |-> FALSE]

\* impl.go:381-406: the client newNacosClient returns without error: exit
\* open, the once unused, the inner config client set.
ClientInit ==
    /\ clExit = FALSE
    /\ clCloses = 0
    /\ clInner = TRUE
    /\ clOnce = "fresh"
    /\ clPc = [g \in Callers |-> "idle"]
    /\ clOp = [g \in Callers |-> "none"]
    /\ clCall = [g \in Callers |-> NoCall]
    /\ clRet = [g \in Callers |-> "none"]
    /\ clOps = 0
    /\ clClosed = FALSE

\* A caller begins a call: what it is, and what the client was then.
Begin(g, op) ==
    /\ clPc[g] = "idle"
    /\ clOps < MaxClientOps
    /\ clOps' = clOps + 1
    /\ clOp' = [clOp EXCEPT ![g] = op]
    /\ clCall' = [clCall EXCEPT ![g] = [exit |-> clExit, inner |-> clInner]]

\* Where a caller goes when its stop() has returned: stop() itself is over,
\* Close goes on to SetClient(nil).
AfterStop(g, op, ret) ==
    IF op = "stop"
       THEN /\ clPc' = [clPc EXCEPT ![g] = "idle"]
            /\ clRet' = [clRet EXCEPT ![g] = ret]
       ELSE /\ clPc' = [clPc EXCEPT ![g] = "setClient"]
            /\ clRet' = [clRet EXCEPT ![g] = "none"]

\* impl.go:445-449: the select of stop(): with exit closed it returns true,
\* else it goes on to the once.
stopSelect(g, op) ==
    IF clExit
       THEN AfterStop(g, op, "true")
       ELSE /\ clPc' = [clPc EXCEPT ![g] = "once"]
            /\ clRet' = [clRet EXCEPT ![g] = "none"]

\* impl.go:445: a caller calls stop().
stop(g) ==
    /\ Begin(g, "stop")
    /\ stopSelect(g, "stop")
    /\ UNCHANGED <<clExit, clCloses, clInner, clOnce, clClosed>>
    /\ ClientFrame

\* impl.go:475-480: a caller calls Close() on the client: n is not nil, so
\* it calls stop().
ClientCloseCall(g) ==
    /\ Begin(g, "Close")
    /\ stopSelect(g, "Close")
    /\ UNCHANGED <<clExit, clCloses, clInner, clOnce, clClosed>>
    /\ ClientFrame

\* impl.go:475-478: Close() on a nil *NacosClient returns at once.
CloseNil(g) ==
    /\ Begin(g, "CloseNil")
    /\ clRet' = [clRet EXCEPT ![g] = "none"]
    /\ UNCHANGED <<clExit, clCloses, clInner, clOnce, clPc, clClosed>>
    /\ ClientFrame

\* A once.Do that runs its function every time.
onceDoEveryTime(g) ==
    /\ clPc[g] = "once"
    /\ clPc' = [clPc EXCEPT ![g] = "onceClose"]
    /\ UNCHANGED <<clExit, clCloses, clInner, clOnce, clOp, clCall, clRet,
                   clOps, clClosed>>
    /\ ClientFrame

\* impl.go:450: n.once.Do(n.onceClose).  The first caller takes the once and
\* runs the function; a caller that finds the function running waits for it
\* to end; a caller that finds it done returns, and stop() returns false.
onceDo(g) ==
    /\ clPc[g] = "once"
    /\ clOnce # "running"
    /\ IF clOnce = "fresh"
          THEN /\ clOnce' = "running"
               /\ clPc' = [clPc EXCEPT ![g] = "onceClose"]
               /\ UNCHANGED clRet
          ELSE /\ AfterStop(g, clOp[g], "false")
               /\ UNCHANGED clOnce
    /\ UNCHANGED <<clExit, clCloses, clInner, clOp, clCall, clOps, clClosed>>
    /\ ClientFrame

\* impl.go:392-394: onceClose closes exit; closing a closed channel panics.
\* Then the once is done and stop() returns false (impl.go:453).
onceClose(g) ==
    /\ clPc[g] = "onceClose"
    /\ clCloses' = clCloses + 1
    /\ clExit' = TRUE
    /\ clOnce' = "done"
    /\ IF clExit
          THEN /\ clPc' = [clPc EXCEPT ![g] = "panicked"]
               /\ UNCHANGED clRet
          ELSE AfterStop(g, clOp[g], "false")
    /\ UNCHANGED <<clInner, clOp, clCall, clOps, clClosed>>
    /\ ClientFrame

\* impl.go:481, 317-322: SetClient(nil) under the client's lock, and Close
\* returns.
SetClientNil(g) ==
    /\ clPc[g] = "setClient"
    /\ clInner' = FALSE
    /\ clClosed' = TRUE
    /\ clPc' = [clPc EXCEPT ![g] = "idle"]
    /\ UNCHANGED <<clExit, clCloses, clOnce, clOp, clCall, clRet, clOps>>
    /\ ClientFrame

\* impl.go:457-462: the select of NacosClientValid(): with exit closed it
\* returns false.
NacosClientValid(g) ==
    /\ Begin(g, "Valid")
    /\ IF clExit
          THEN /\ clRet' = [clRet EXCEPT ![g] = "false"]
               /\ UNCHANGED clPc
          ELSE /\ clRet' = [clRet EXCEPT ![g] = "none"]
               /\ clPc' = [clPc EXCEPT ![g] = "validRead"]
    /\ UNCHANGED <<clExit, clCloses, clInner, clOnce, clClosed>>
    /\ ClientFrame

\* impl.go:464-471: the inner client is read under the lock and
\* NacosClientValid() returns whether it is non-nil.
ValidRead(g) ==
    /\ clPc[g] = "validRead"
    /\ clRet' = [clRet EXCEPT ![g] = IF clInner THEN "true" ELSE "false"]
    /\ clPc' = [clPc EXCEPT ![g] = "idle"]
    /\ UNCHANGED <<clExit, clCloses, clInner, clOnce, clOp, clCall, clOps,
                   clClosed>>
    /\ ClientFrame

ClientNext ==
    \E g \in Callers :
       \/ stop(g)
       \/ ClientCloseCall(g)
       \/ CloseNil(g)
       \/ onceDo(g)
       \/ onceClose(g)
       \/ SetClientNil(g)
       \/ NacosClientValid(g)
       \/ ValidRead(g)

(***************************************************************************)
(* connection pool: util/pool/options.go and the pool's Get and Release    *)
(***************************************************************************)

\* The size and TTL (in ticks) the pool is configured with, and the sockets
\* that can be dialed, which also bounds the callers in flight.
PoolSize == 2
PoolTTL == 2
MaxSocks == 3

\* The idle sets are keyed by address; one address is followed.
Addrs == {"a"}
SockIds == 1..MaxSocks

\* options.go:9-13
ZeroPoolOptions == [Transport |-> Nil, TTL |-> 0, Size |-> 0]

\* A Size option that stores one more than it was given.
SizeOffByOne(o, i) == [o EXCEPT !.Size = i + 1]

\* A Size option that stores nothing.
SizeDropped(o, i) == o

\* options.go:17-21
Size(o, i) == [o EXCEPT !.Size = i]

\* options.go:23-27
PoolTransport(o, t) == [o EXCEPT !.Transport = t]

\* A TTL option that stores one more than it was given.
TTLOffByOne(o, t) == [o EXCEPT !.TTL = t + 1]

\* options.go:29-33
TTL(o, t) == [o EXCEPT !.TTL = t]

\* The options of the pool under study.
PoolOptions == TTL(Size(PoolTransport(ZeroPoolOptions, "tr"), PoolSize), PoolTTL)

\* A socket not dialed yet.  why: what closed the socket (expired, full,
\* error), "" while it is open.
NoSocket ==
    [addr |-> Nil, closed |-> FALSE, why |-> "", holders |-> 0,
     errored |-> FALSE]

\* A closed socket: nothing but its address and the cause is kept.
Closed(sock, why) ==
    [addr |-> sock.addr, closed |-> TRUE, why |-> why, holders |-> 0,
     errored |-> FALSE]

Sum(f, S) ==
    LET RECURSIVE Acc(_)
        Acc(T) == IF T = {} THEN 0
                  ELSE LET x == CHOOSE y \in T : TRUE IN f[x] + Acc(T \ {x})
    IN  Acc(S)

\* Callers holding a socket or dialing one.
InFlight ==
    Sum([s \in SockIds |-> plSock[s].holders], SockIds)
      + Sum(plPending, Addrs)

Dialed == {s \in SockIds : plSock[s].addr # Nil}

\* An idle entry is expired when it has been idle for the TTL or longer.
\* An entry's age is the time since its lastUsedAt stamp.
Expired(e) == e.age >= PoolOptions.TTL

\* Get's walk over the idle entries of one address, most recent first: an
\* expired entry is closed and dropped, the first unexpired one is taken.
RECURSIVE Scan(_, _)
Scan(entries, dropped) ==
    IF entries = <<>> THEN [hit |-> 0, rest |-> <<>>, dropped |-> dropped]
    ELSE LET e == entries[Len(entries)]
             rest == SubSeq(entries, 1, Len(entries) - 1)
         IN  IF Expired(e) THEN Scan(rest, dropped \cup {e.sock})
             ELSE [hit |-> e.sock, rest |-> rest, dropped |-> dropped]

NoOp == [op |-> "none", sock |-> 0]

PoolInit ==
    /\ plSock = [s \in SockIds |-> NoSocket]
    /\ plIdle = [a \in Addrs |-> <<>>]
    /\ plPending = [a \in Addrs |-> 0]
    /\ plLast = [a \in Addrs |-> NoOp]

\* A Get that hands out the most recent idle socket and leaves it idle.
GetKeepIdle(a) ==
    /\ InFlight < MaxSocks
    /\ IF plIdle[a] = <<>>
          THEN /\ plPending' = [plPending EXCEPT ![a] = @ + 1]
               /\ plLast' = [plLast EXCEPT ![a] = [op |-> "miss", sock |-> 0]]
               /\ UNCHANGED plSock
          ELSE /\ plSock' = [plSock EXCEPT
                               ![plIdle[a][Len(plIdle[a])].sock].holders = @ + 1]
               /\ plLast' = [plLast EXCEPT ![a] =
                               [op |-> "hit",
                                sock |-> plIdle[a][Len(plIdle[a])].sock]]
               /\ UNCHANGED plPending
    /\ UNCHANGED plIdle
    /\ PoolFrame

\* Get(address), the critical section: the first unexpired idle entry,
\* most recent first, leaves the idle set and is returned; expired entries
\* met on the way are closed and dropped; with no entry left the caller
\* goes on to dial.
Get(a) ==
    /\ InFlight < MaxSocks
    /\ LET r == Scan(plIdle[a], {}) IN
         /\ plIdle' = [plIdle EXCEPT ![a] = r.rest]
         /\ plSock' = [s \in SockIds |->
                         IF s \in r.dropped THEN Closed(plSock[s], "expired")
                         ELSE IF s = r.hit THEN [plSock[s] EXCEPT !.holders = @ + 1]
                         ELSE plSock[s]]
         /\ plPending' = [plPending EXCEPT ![a] = IF r.hit = 0 THEN @ + 1 ELSE @]
         /\ plLast' = [plLast EXCEPT ![a] =
                         [op |-> IF r.hit = 0 THEN "miss" ELSE "hit",
                          sock |-> r.hit]]
    /\ PoolFrame

\* Get(address), outside the lock: the transport dials a new socket, which
\* is returned to the caller.
Dial(a) ==
    /\ plPending[a] > 0
    /\ SockIds \ Dialed # {}
    /\ LET s == CHOOSE x \in SockIds \ Dialed : \A y \in SockIds \ Dialed : x <= y IN
         plSock' = [plSock EXCEPT ![s] =
                      [addr |-> a, closed |-> FALSE, why |-> "", holders |-> 1,
                       errored |-> FALSE]]
    /\ plPending' = [plPending EXCEPT ![a] = @ - 1]
    /\ UNCHANGED <<plIdle, plLast>>
    /\ PoolFrame

\* Get(address), outside the lock: the dial fails and Get returns the
\* transport's error.
DialFail(a) ==
    /\ plPending[a] > 0
    /\ plPending' = [plPending EXCEPT ![a] = @ - 1]
    /\ UNCHANGED <<plSock, plIdle, plLast>>
    /\ PoolFrame

\* A Send or Recv of the holder fails: the socket is no longer reusable.
SendRecvError(s) ==
    /\ plSock[s].holders > 0
    /\ ~plSock[s].errored
    /\ plSock' = [plSock EXCEPT ![s].errored = TRUE]
    /\ UNCHANGED <<plIdle, plPending, plLast>>
    /\ PoolFrame

\* What the latest Release for an address was: of a reusable socket with
\* the idle count below the configured size (kept), or any other (closed).
Released(s) ==
    [op |-> IF ~plSock[s].errored /\ Len(plIdle[plSock[s].addr]) < PoolSize
               THEN "kept" ELSE "closed",
     sock |-> s]

\* A Release that puts the socket under the idle entries already there.
ReleaseFront(s) ==
    /\ plSock[s].holders > 0
    /\ LET a == plSock[s].addr
           keep == ~plSock[s].errored /\ Len(plIdle[a]) < PoolOptions.Size
       IN  /\ plSock' = [plSock EXCEPT ![s] =
                           IF keep THEN [@ EXCEPT !.holders = @ - 1]
                           ELSE Closed(@, IF @.errored THEN "error" ELSE "full")]
           /\ plIdle' = [plIdle EXCEPT ![a] =
                           IF keep THEN <<[sock |-> s, age |-> 0]>> \o @ ELSE @]
           /\ plLast' = [plLast EXCEPT ![a] = Released(s)]
    /\ UNCHANGED plPending
    /\ PoolFrame

\* Release(socket, reusable): the holder releases its socket, reusable
\* unless a Send or Recv failed; a reusable socket is stamped (its idle age
\* starts at zero) and enters the idle set when the address has fewer idle
\* entries than the size bound, any other socket is closed.
Release(s) ==
    /\ plSock[s].holders > 0
    /\ LET a == plSock[s].addr
           keep == ~plSock[s].errored /\ Len(plIdle[a]) < PoolOptions.Size
       IN  /\ plSock' = [plSock EXCEPT ![s] =
                           IF keep THEN [@ EXCEPT !.holders = @ - 1]
                           ELSE Closed(@, IF @.errored THEN "error" ELSE "full")]
           /\ plIdle' = [plIdle EXCEPT ![a] =
                           IF keep THEN Append(@, [sock |-> s, age |-> 0]) ELSE @]
           /\ plLast' = [plLast EXCEPT ![a] = Released(s)]
    /\ UNCHANGED plPending
    /\ PoolFrame

\* Time passes: every idle entry is one tick older.  Ages stop at the TTL,
\* where the entry is expired for good.
Tick ==
    /\ \E a \in Addrs : \E i \in 1..Len(plIdle[a]) : ~Expired(plIdle[a][i])
    /\ plIdle' = [a \in Addrs |->
                    [i \in 1..Len(plIdle[a]) |->
                       IF Expired(plIdle[a][i]) THEN plIdle[a][i]
                       ELSE [plIdle[a][i] EXCEPT !.age = @ + 1]]]
    /\ UNCHANGED <<plSock, plPending, plLast>>
    /\ PoolFrame

PoolNext ==
    \/ \E a \in Addrs : Get(a)
    \/ \E a \in Addrs : Dial(a)
    \/ \E a \in Addrs : DialFail(a)
    \/ \E s \in SockIds : SendRecvError(s)
    \/ \E s \in SockIds : Release(s)
    \/ Tick

(***************************************************************************)
(* server lifecycle: Created, Listening, Registered, Draining, Stopped     *)
(***************************************************************************)

\* Handler and subscriber invocations the server can have seen, and the
\* drain deadline in ticks.
MaxCalls == 3
DrainTimeout == 2

Calls == 1..MaxCalls

ServerStoppingError == "failed"

Running == {c \in Calls : drCalls[c] = "running"}

DrainInit ==
    /\ drState = "Created"
    /\ drCalls = [c \in Calls |-> "none"]
    /\ drWg = 0
    /\ drClock = 0

\* Created -> Listening: the transport listener is bound.
Listen ==
    /\ drState = "Created"
    /\ drState' = "Listening"
    /\ UNCHANGED <<drCalls, drWg, drClock>>
    /\ DrainFrame

\* Listening -> Registered: RegisterCheck passes and the record is
\* published; when the check fails the server keeps serving unregistered.
Register(checkOk) ==
    /\ drState = "Listening"
    /\ drState' = IF checkOk THEN "Registered" ELSE "Listening"
    /\ UNCHANGED <<drCalls, drWg, drClock>>
    /\ DrainFrame

\* An accept loop that keeps accepting while the server drains.
AcceptWhileDraining(c) ==
    /\ drState \in {"Listening", "Registered", "Draining"}
    /\ drCalls[c] = "none"
    /\ drCalls' = [drCalls EXCEPT ![c] = "running"]
    /\ drWg' = drWg + 1
    /\ UNCHANGED <<drState, drClock>>
    /\ DrainFrame

\* The accept loop takes a socket from the listener and its request is
\* served through the wrapper chain: one more call in flight.
Accept(c) ==
    /\ drState \in {"Listening", "Registered"}
    /\ drCalls[c] = "none"
    /\ drCalls' = [drCalls EXCEPT ![c] = "running"]
    /\ drWg' = drWg + 1
    /\ UNCHANGED <<drState, drClock>>
    /\ DrainFrame

\* A handler or subscriber invocation completes.
Finish(c) ==
    /\ drCalls[c] = "running"
    /\ drCalls' = [drCalls EXCEPT ![c] = "finished"]
    /\ drWg' = drWg - 1
    /\ UNCHANGED <<drState, drClock>>
    /\ DrainFrame

\* The stop signal: the listener stops accepting and the drain begins.
Stop ==
    /\ drState \in {"Listening", "Registered"}
    /\ drState' = "Draining"
    /\ drClock' = 0
    /\ UNCHANGED <<drCalls, drWg>>
    /\ DrainFrame

\* Time passes during the drain, up to the deadline.
DrainTick ==
    /\ drState = "Draining"
    /\ drClock < DrainTimeout
    /\ drClock' = drClock + 1
    /\ UNCHANGED <<drState, drCalls, drWg>>
    /\ DrainFrame

\* Draining -> Stopped: every call in flight has completed.
DrainComplete ==
    /\ drState = "Draining"
    /\ drWg = 0
    /\ drState' = "Stopped"
    /\ UNCHANGED <<drCalls, drWg, drClock>>
    /\ DrainFrame

\* Draining -> Stopped at the deadline: the remaining sockets are closed,
\* their calls fail with ServerStoppingError, and the stop completes.
DrainDeadline ==
    /\ drState = "Draining"
    /\ drClock = DrainTimeout
    /\ drWg > 0
    /\ drCalls' = [c \in Calls |->
                     IF drCalls[c] = "running" THEN ServerStoppingError
                     ELSE drCalls[c]]
    /\ drWg' = 0
    /\ drState' = "Stopped"
    /\ UNCHANGED drClock
    /\ DrainFrame

DrainNext ==
    \/ Listen
    \/ \E checkOk \in BOOLEAN : Register(checkOk)
    \/ \E c \in Calls : Accept(c)
    \/ \E c \in Calls : Finish(c)
    \/ Stop
    \/ DrainTick
    \/ DrainComplete
    \/ DrainDeadline

(***************************************************************************)
(* Specifications: one per subsystem, the other subsystems at rest         *)
(***************************************************************************)

InitStream ==
    StreamInit /\ OptOff /\ WrapInit /\ TraceInit /\ NacosInit /\ ValidateInit
      /\ ClientInit
      /\ PoolInit /\ DrainInit

InitOpt ==
    StreamInit /\ OptInit /\ WrapInit /\ TraceInit /\ NacosInit /\ ValidateInit
      /\ ClientInit
      /\ PoolInit /\ DrainInit

SpecStream == InitStream /\ [][StreamNext]_vars

InitPlain ==
    StreamInit /\ PlainInit /\ WrapInit /\ TraceInit /\ NacosInit /\ ValidateInit
      /\ ClientInit /\ PoolInit /\ DrainInit

SpecOpt == InitOpt /\ [][OptNext]_vars

SpecPlain == InitPlain /\ [][OptNext]_vars

SpecWrap == InitStream /\ [][WrapNext]_vars

SpecTrace == InitStream /\ [][TraceNext]_vars

SpecNacos ==
    /\ InitStream
    /\ [][NacosNext]_vars
    /\ WF_vars(TaskExit)
    /\ WF_vars(DestroyWait)
    /\ WF_vars(closeConfigs)

SpecValidate == InitStream /\ [][ValidateNext]_vars

SpecClient == InitStream /\ [][ClientNext]_vars

SpecPool == InitStream /\ [][PoolNext]_vars

SpecDrain ==
    /\ InitStream
    /\ [][DrainNext]_vars
    /\ WF_vars(DrainTick)
    /\ WF_vars(DrainComplete)
    /\ WF_vars(DrainDeadline)

Spec == SpecStream

(***************************************************************************)
(* Properties                                                              *)
(***************************************************************************)

\* C1: every finished Stream invocation whose socket function panicked has
\* its socket closed and returned InternalServerError, one whose socket
\* function returned handed back a nil error; no panic ever leaves Stream,
\* and whatever happened to other invocations a new connection can still
\* be served.
C1_PanicContained ==
    /\ alive
    /\ \A c \in Conns :
         /\ stPc[c] \in {"ret", "done"} => stPanicking[c] = NoPanic
         /\ stPc[c] = "done" /\ stFn[c] = "panicked" =>
              stSock[c].closed /\ stRet[c] = InternalServerError
         /\ stPc[c] = "done" /\ stFn[c] = "returned" => stRet[c] = Nil
         /\ stPc[c] = "idle" => ENABLED StreamCall(c, TRUE)

\* A panicking invocation has finished and another one was served too.
C1_Witness ==
    \E c, d \in Conns :
       /\ c # d
       /\ stPc[c] = "done" /\ stFn[c] = "panicked"
       /\ stSock[c].closed /\ stRet[c] = InternalServerError
       /\ stPc[d] = "done" /\ stFn[d] = "returned" /\ stRet[d] = Nil

\* The wrappers registered for one extension point, in call order.
Registered(kind) ==
    LET sel == SelectSeq(wrReg, LAMBDA r : r.kind = kind)
    IN  [i \in 1..Len(sel) |-> sel[i].w]

\* pre of every wrapper in order, the terminal function, post of every
\* wrapper in reverse order.
ExpectedEvents(ws) ==
    LET n == Len(ws) IN
    [i \in 1..(2 * n + 1) |->
        IF i <= n THEN Event("pre", ws[i])
        ELSE IF i = n + 1 THEN Event("T", "T")
        ELSE Event("post", ws[2 * n + 2 - i])]

\* C2: a finished invocation of the handler (or subscriber) chain has
\* produced pre of each registered wrapper in registration order, then the
\* terminal function, then post of each wrapper in reverse order: the
\* first-registered wrapper is the outermost.
C2_WrapperOrder ==
    wrPc = "done" => wrEvents = ExpectedEvents(Registered(wrKind))

\* W1 then W2 were registered as handler wrappers and one invocation ran.
C2_Witness ==
    /\ wrPc = "done"
    /\ wrKind = "handler"
    /\ Registered("handler") = <<"W1", "W2">>
    /\ wrEvents = <<Event("pre", "W1"), Event("pre", "W2"), Event("T", "T"),
                    Event("post", "W2"), Event("post", "W1")>>

IdleSocks(a) == {plIdle[a][i].sock : i \in 1..Len(plIdle[a])}

\* A step in which the holder of s releases it.
ReleaseStep(s) == plSock'[s].holders < plSock[s].holders

\* A step in which a Get runs its critical section for address a.
GetStep(a) ==
    \/ Len(plIdle'[a]) < Len(plIdle[a])
    \/ plPending'[a] > plPending[a]

\* C3: the idle entries of one address never outnumber the configured
\* size, and a Release that meets a full idle set closes its socket and
\* leaves the idle set as it was.
C3_PoolBound ==
    /\ [](\A a \in Addrs : Len(plIdle[a]) <= PoolSize)
    /\ [][\A s \in SockIds :
            ReleaseStep(s) /\ Len(plIdle[plSock[s].addr]) >= PoolSize =>
               plSock'[s].closed /\ plIdle' = plIdle]_vars

\* A healthy socket was closed by a Release that met a full idle set.
C3_Witness ==
    \E s \in SockIds :
       /\ plSock[s].closed /\ plSock[s].why = "full"
       /\ plLast[plSock[s].addr] = [op |-> "closed", sock |-> s]
       /\ Len(plIdle[plSock[s].addr]) = PoolSize

\* C4: a socket has at most one holder, a held socket is not in the idle
\* set, and no socket is in the idle set twice.
C4_ExclusiveCheckout ==
    /\ \A s \in SockIds :
          /\ plSock[s].holders <= 1
          /\ plSock[s].holders = 1 => \A a \in Addrs : s \notin IdleSocks(a)
    /\ \A a \in Addrs : Cardinality(IdleSocks(a)) = Len(plIdle[a])

\* Two callers hold different sockets of one address, the second of them
\* handed out from the idle set while the first was held.
C4_Witness ==
    \E s, t \in SockIds :
       /\ s # t
       /\ plSock[s].holders = 1 /\ plSock[t].holders = 1
       /\ plSock[s].addr = plSock[t].addr
       /\ plLast[plSock[t].addr] = [op |-> "hit", sock |-> t]

\* C5: in a Get for address a no idle entry whose age has reached the
\* configured TTL is handed out; when the most recent entry has expired it
\* is closed, leaves the idle set, and the Get goes on to dial; and no
\* caller ever holds a closed socket.
C5_TTLExpiry ==
    /\ [](\A s \in SockIds : plSock[s].holders > 0 => ~plSock[s].closed)
    /\ [][\A a \in Addrs : GetStep(a) =>
            /\ \A i \in 1..Len(plIdle[a]) :
                  plIdle[a][i].age >= PoolTTL =>
                     plSock'[plIdle[a][i].sock].holders = 0
            /\ LET n == Len(plIdle[a]) IN
                  n > 0 /\ plIdle[a][n].age >= PoolTTL =>
                     /\ plSock'[plIdle[a][n].sock].closed
                     /\ plIdle[a][n].sock \notin
                           {plIdle'[a][j].sock : j \in 1..Len(plIdle'[a])}
                     /\ plPending'[a] = plPending[a] + 1]_vars

\* A Get met an expired entry, closed it and is dialing.
C5_Witness ==
    \E s \in SockIds :
       /\ plSock[s].closed /\ plSock[s].why = "expired"
       /\ plLast[plSock[s].addr] = [op |-> "miss", sock |-> 0]
       /\ plPending[plSock[s].addr] = 1
       /\ plIdle[plSock[s].addr] = <<>>

\* C6: when the latest Release for an address was reusable and met fewer
\* idle entries than the configured size, and no idle entry of the address
\* has expired, the next Get for the address returns that socket and does
\* not dial; the Release of a socket whose Send or Recv failed closes it
\* and keeps it out of the idle set; and a closed socket stays closed and
\* is never handed out again.
C6_PoolReuse ==
    /\ [][\A a \in Addrs :
            (/\ GetStep(a)
             /\ plLast[a].op = "kept"
             /\ \A i \in 1..Len(plIdle[a]) : plIdle[a][i].age < PoolTTL)
            => /\ plSock'[plLast[a].sock].holders = 1
               /\ plPending' = plPending]_vars
    /\ [][\A s \in SockIds :
            ReleaseStep(s) /\ plSock[s].errored =>
               /\ plSock'[s].closed
               /\ \A a \in Addrs :
                     s \notin {plIdle'[a][j].sock : j \in 1..Len(plIdle'[a])}]_vars
    /\ [][\A s \in SockIds :
            plSock[s].closed => plSock'[s].closed /\ plSock'[s].holders = 0]_vars

\* Of two idle sockets of one address a Get returned one and left the
\* other idle, and a socket released after an error is closed.
C6_Witness ==
    \E a \in Addrs : \E s, t, u \in SockIds :
       /\ plSock[s].addr = a /\ plSock[t].addr = a
       /\ plLast[a] = [op |-> "hit", sock |-> t]
       /\ plSock[t].holders = 1
       /\ plIdle[a] = <<[sock |-> s, age |-> 0]>>
       /\ plSock[u].closed /\ plSock[u].why = "error"

\* C7: a stopped server has no call running; a call failed with
\* ServerStoppingError only when the drain deadline had elapsed, so a stop
\* that completes before the deadline found every call finished; once the
\* drain has begun no new call is accepted; and a drain always ends in
\* Stopped.
C7_GracefulDrain ==
    /\ [](drState = "Stopped" => Running = {} /\ drWg = 0)
    /\ [](\A c \in Calls :
            drCalls[c] = ServerStoppingError =>
               drState = "Stopped" /\ drClock = DrainTimeout)
    /\ [](drWg = Cardinality(Running))
    /\ [][(drState \in {"Draining", "Stopped"}) =>
            (\A c \in Calls : drCalls[c] = "none" => drCalls'[c] = "none")]_vars
    /\ [][(drState = "Draining" /\ drState' = "Stopped" /\ drClock < DrainTimeout)
            => (Running = {})]_vars
    /\ (drState = "Draining" ~> drState = "Stopped")

\* The server stopped at the deadline with one call finished in time and
\* another failed.
C7_Witness ==
    /\ drState = "Stopped"
    /\ \E c, d \in Calls :
          drCalls[c] = "finished" /\ drCalls[d] = ServerStoppingError

\* C8: a tracing wrapper calls next at most once, and only after span
\* creation succeeded; when it has returned, it called next exactly once
\* and returned the error of next if span creation succeeded, and it did
\* not call next and returned the span-creation error if it failed.
C8_NextOnceErrorKept ==
    \A i \in Invs :
       /\ trNextCalls[i] <= 1
       /\ trNextCalls[i] = 1 => trSpanErr[i] = Nil
       /\ trPc[i] = "done" =>
            IF trSpanErr[i] = Nil
               THEN trNextCalls[i] = 1 /\ trRet[i] = trNextErr[i]
               ELSE trNextCalls[i] = 0 /\ trRet[i] = trSpanErr[i]

\* One wrapper returned the error of its next, another returned without
\* calling next because its span could not be created.
C8_Witness ==
    \E i, j \in Invs :
       /\ trPc[i] = "done" /\ trNextCalls[i] = 1
       /\ trNextErr[i] = "errB" /\ trRet[i] = "errB"
       /\ trPc[j] = "done" /\ trNextCalls[j] = 0 /\ trRet[j] = InjectError

\* The order of Destroy's steps and the answers of IsAvailable.
DestroyOrder ==
    /\ ncDestroy # "idle" => ncDone
    /\ ncDestroy \in {"closing", "returned"} => ncWg = 0 /\ ncTask = "exited"
    /\ ncDestroy \in {"idle", "waiting"} /\ ncTask = "watch" => ncClient # 0
    /\ ncDestroy = "returned" =>
          /\ ncClient = 0
          /\ \A c \in ClientIds :
                ncObjs[c].alloc => ncObjs[c].exit /\ ~ncObjs[c].inner
    /\ ncPhase = "built" => (IsAvailable <=> ncDestroy = "idle")
    /\ ncSeen.ret # "none" => (ncSeen.ret = "true" <=> ncSeen.at = "idle")

\* C9: Destroy closes done first, goes past the wait only when the wait
\* group is back at zero and the restart task has ended, and only then
\* takes the client out of the instance and closes it; IsAvailable answers
\* true exactly until Destroy has closed done; and a Destroy that has
\* closed done returns.
C9_DestroyJoins ==
    /\ []DestroyOrder
    /\ (ncDestroy = "waiting" ~> ncDestroy = "returned")

\* Destroy has returned after the restart task had replaced the client,
\* and IsAvailable answered false while Destroy was waiting.
C9_Witness ==
    /\ ncDestroy = "returned"
    /\ ncSeen = [ret |-> "false", at |-> "waiting"]
    /\ ncObjs[2].alloc

HasWait(list) == \E i \in 1..Len(list) : list[i].op = "Wait"

\* The wait group the last Wait of the list asks for.
LastWait(list) ==
    LET i == CHOOSE k \in 1..Len(list) :
                /\ list[k].op = "Wait"
                /\ \A m \in (k + 1)..Len(list) : list[m].op # "Wait"
    IN  IF list[i].arg = Nil THEN "wgNew" ELSE list[i].arg

\* C10: the Options newOptions returns for a list with a Wait option carry
\* under "wait" the caller's wait group, or a fresh one when the caller
\* gave nil, wherever Wait stands in the list.
C10_WaitCarried ==
    optResult.state = "returned" /\ HasWait(optList) =>
       optResult.opts.Context.wait = LastWait(optList)

HasTLSConfig(list) == \E i \in 1..Len(list) : list[i].op = "TLSConfig"

\* The tls.Config the last TLSConfig of the list asks for.
LastTLSConfig(list) ==
    LET i == CHOOSE k \in 1..Len(list) :
                /\ list[k].op = "TLSConfig"
                /\ \A m \in (k + 1)..Len(list) : list[m].op # "TLSConfig"
    IN  list[i].arg

\* C11: for a list with a TLSConfig(t) option, wherever it stands relative
\* to the Transport option and also when the list has no Transport option,
\* newOptions returns, the Options hold t in TLSConfig, and the transport
\* the Options hold has been initialised with Secure(true) and TLSConfig(t).
C11_TLSConfigApplied ==
    optResult.state # "none" /\ HasTLSConfig(optList) =>
       /\ optResult.state = "returned"
       /\ optResult.opts.TLSConfig = LastTLSConfig(optList)
       /\ optResult.heap[optResult.opts.Transport] =
             [secure |-> TRUE, tls |-> LastTLSConfig(optList)]

\* A call of caller g has returned.
Returned(g, op) == clOp[g] = op /\ clPc[g] = "idle"

\* C12: under every interleaving of stop(), Close() and NacosClientValid()
\* calls on one NacosClient exit is closed at most once and no caller
\* panics; a stop() that has returned returned true exactly when exit was
\* closed as it was called; once a Close() has returned exit is closed, the
\* inner client is nil and every NacosClientValid() that returns returns
\* false; a NacosClientValid() returns true only if exit was open and the
\* inner client non-nil as it was called, and false only if exit is closed
\* or the inner client nil as it returns; and Close() on a nil client
\* changes nothing.
C12_ClientClose ==
    /\ [](clCloses <= 1 /\ \A g \in Callers : clPc[g] # "panicked")
    /\ [](\A g \in Callers :
            Returned(g, "stop") =>
               /\ clRet[g] \in {"true", "false"}
               /\ clRet[g] = "true" <=> clCall[g].exit)
    /\ [](clClosed => clExit /\ ~clInner)
    /\ [](\A g \in Callers :
            Returned(g, "Valid") /\ clRet[g] = "true" =>
               ~clCall[g].exit /\ clCall[g].inner)
    /\ [][\A g \in Callers :
            clOp'[g] = "Valid" /\ clRet'[g] # clRet[g] /\ clRet'[g] # "none" =>
               /\ clClosed => clRet'[g] = "false"
               /\ clRet'[g] = "false" => clExit' \/ ~clInner'
               /\ clRet'[g] = "true" => clInner']_vars
    /\ [][\A g \in Callers :
            clOps' > clOps /\ clOp'[g] = "CloseNil" /\ clPc[g] = "idle"
               /\ clCall'[g] = [exit |-> clExit, inner |-> clInner]
               /\ (\A h \in Callers \ {g} : clOp'[h] = clOp[h]) =>
               UNCHANGED <<clExit, clCloses, clInner, clOnce, clClosed>>]_vars

\* Two callers passed the select of stop() with exit open, one in stop()
\* and one in Close(); both have returned, exit was closed once, and a
\* NacosClientValid() after the Close returned false.
C12_Witness ==
    \E g, h \in Callers :
       /\ g # h
       /\ clOps = 3
       /\ clCloses = 1
       /\ clClosed
       /\ \/ /\ Returned(g, "stop") /\ clRet[g] = "false" /\ ~clCall[g].exit
             /\ Returned(h, "Valid") /\ clRet[h] = "false" /\ clCall[h].exit
          \/ /\ Returned(g, "Close") /\ ~clCall[g].exit
             /\ Returned(h, "Close") /\ ~clCall[h].exit

\* C13: ValidateNacosClient returns nil exactly when the container then
\* holds a client whose inner config client is set; a client that had its
\* inner config client is left as it was and no client is created; when
\* creating the client or its inner config client fails, the container's
\* reference is unchanged; and whenever it returns nil the container's
\* client is usable (NacosClientValid() is true), also when the container's
\* previous client had been closed.
C13_ValidateUsable ==
    vlLast.err # "none" =>
       /\ vlLast.err = Nil <=>
             vlLast.after # 0 /\ vlLast.objsAfter[vlLast.after].inner
       /\ vlLast.before # 0 /\ vlLast.objsBefore[vlLast.before].inner =>
             vlLast.after = vlLast.before /\ vlLast.objsAfter = vlLast.objsBefore
       /\ vlLast.err \in {"newClientErr", "initErr"} =>
             vlLast.after = vlLast.before
       /\ vlLast.err = Nil => Usable(vlLast.objsAfter[vlLast.after])

\* The value the last op option of the list set, none when the list has no
\* such option.
LastSet(list, op, none) ==
    IF \A i \in 1..Len(list) : list[i].op # op THEN none
    ELSE LET i == CHOOSE k \in 1..Len(list) :
                     /\ list[k].op = op
                     /\ \A m \in (k + 1)..Len(list) : list[m].op # op
         IN  list[i].arg

\* The value a field with a default must hold: what the options left in it,
\* the default when that is nil or empty.
Kept(list, op, zero, default) ==
    IF LastSet(list, op, zero) = zero THEN default ELSE LastSet(list, op, zero)

\* C14: for every list of field-setting options newOptions returns Options
\* with Broker, Registry, Transport and RegisterCheck not nil and Address,
\* Name, Id and Version not empty; each holds what the last option for it
\* set, the default where that is nil or empty or no option set it;
\* RegisterTTL and RegisterInterval hold their defaults unless an option
\* set them; and rpc.newOptions returns the same Options as
\* server.newOptions for the same list.
C14_DefaultsApplied ==
    /\ optResult.state # "none" =>
          /\ optResult.state = "returned"
          /\ LET o == optResult.opts IN
               /\ o.Broker # Nil /\ o.Registry # Nil /\ o.Transport # Nil
               /\ o.RegisterCheck # Nil
               /\ o.Address # "" /\ o.Name # "" /\ o.Id # "" /\ o.Version # ""
               /\ o.Broker = Kept(optList, "Broker", Nil, "mbroker")
               /\ o.Registry = Kept(optList, "Registry", Nil, "memory")
               /\ o.Transport = Kept(optList, "Transport", Nil, "tmem")
               /\ o.RegisterCheck =
                     Kept(optList, "RegisterCheck", Nil, "DefaultRegisterCheck")
               /\ o.Address = Kept(optList, "Address", "", "DefaultAddress")
               /\ o.Name = Kept(optList, "Name", "", "DefaultName")
               /\ o.Id = Kept(optList, "Id", "", "DefaultId")
               /\ o.Version = Kept(optList, "Version", "", "DefaultVersion")
               /\ o.RegisterTTL =
                     LastSet(optList, "RegisterTTL", "DefaultRegisterTTL")
               /\ o.RegisterInterval =
                     LastSet(optList, "RegisterInterval", "DefaultRegisterInterval")
    /\ optResult.state # "none" /\ optRpcResult.state # "none" =>
          optResult = optRpcResult

\* Both constructors have returned for a list that sets the version, sets
\* it back to empty and sets a broker: the version is the default, the
\* broker the caller's.
C14_Witness ==
    /\ optList = <<[op |-> "Version", arg |-> "v1"],
                   [op |-> "Version", arg |-> ""],
                   [op |-> "Broker", arg |-> "br"]>>
    /\ optResult.state = "returned"
    /\ optRpcResult.state = "returned"
    /\ optResult.opts.Version = "DefaultVersion"
    /\ optResult.opts.Broker = "br"
    /\ optResult.opts.Registry = "memory"

\* C15: when a tracing wrapper has returned, the span StartSpanFromContext
\* started for it has been finished, on the path where the injection of
\* the span's context fails and on the paths where next returns an error
\* as on the others.
C15_NoSpanLeak ==
    \A i \in Invs :
       trPc[i] = "done" /\ trSpan[i].started => trSpan[i].finished
=============================================================================
